---- MODULE Spec2Model ----
(***************************************************************************)
(* Model of pydantic_ai.toolsets._dynamic.DynamicToolset.                  *)
(*                                                                         *)
(* One DynamicToolset node driven by a single run loop.  Every coroutine   *)
(* of the node (get_tools, __aexit__, call_tool) is cut at its await       *)
(* points: pc is the await the in-flight call is suspended at, "idle" when *)
(* no call is in flight.  The children the factory yields, and what their  *)
(* __aenter__/__aexit__/get_tools/call_tool do (return or raise), are the  *)
(* environment and are chosen nondeterministically.                        *)
(*                                                                         *)
(* A child is live when its __aenter__ has returned and its __aexit__ has  *)
(* not been run since (an __aexit__ that raises has still been run; an     *)
(* __aenter__ that raises has acquired nothing).                           *)
(*                                                                         *)
(* The second part models durable_exec.temporal._function_toolset:         *)
(* TemporalFunctionToolset.call_tool on the workflow side and the activity *)
(* body call_tool_activity on a worker, under the specification            *)
(* SpecTemporal.  The third part models _json_error_formatter, a str being *)
(* the sequence of its characters, under the specification SpecJson.  Each *)
(* specification leaves the other parts' variables alone.                  *)
(***************************************************************************)
EXTENDS Integers, Sequences, FiniteSets

\* ---------------------------------------------------------------- bounds
MaxChildren == 2      \* child toolset instances the factory can yield
MaxStep == 2          \* ctx.run_step ranges over 0..MaxStep
MaxCount == 2         \* the per-step counters saturate at this value

\* ------------------------------------------------------- values of fields
None == 0             \* self._toolset = None  (children are 1..MaxChildren)
NoStep == -1          \* self._run_step = None (steps are 0..MaxStep)

Children == 1..MaxChildren
Steps == 0..MaxStep
ToolNames == {"t1", "t2"}
ToolArgs == {"a1", "a2"}

\* The mapping a child's get_tools returns: tool names tagged by the child.
ToolsOf(c) == {<<c, n>> : n \in ToolNames}
EmptyMapping == {}

Sat(n) == IF n >= MaxCount THEN MaxCount ELSE n + 1

VARIABLES
    toolset,       \* self._toolset: None or the bound child
    run_step,      \* self._run_step: NoStep or the bound step
    per_run_step,  \* self.per_run_step
    pc,            \* await point of the call in flight, or "idle"
    op,            \* the call in flight, or the last one: kind, ctx.run_step,
                   \* tool name, and whether it follows an outer exit directly;
                   \* for call_tool also tool_args and the tool descriptor
    fwd,           \* what the child's call_tool was called with by op
    since_exit,    \* "exited" after an outer exit until the next get_tools
    new,           \* local variable `toolset` of get_tools
    pre,           \* self._toolset and self._run_step when op was called
    events,        \* what op has done so far, in order
    result,        \* how op ended
    live,          \* children entered and not exited since
    run,           \* history of the get_tools calls of the current run step
    out            \* what the last visit_and_replace, apply or __eq__ was
                   \* called on and with, what it returned and which nodes
                   \* the visitor was called on, in order

vars == <<toolset, run_step, per_run_step, pc, op, fwd, since_exit, new, pre,
          events, result, live, run, out>>

\* ------------------------------------- TemporalFunctionToolset: state
VARIABLES
    activity_config,       \* self.activity_config
    tool_activity_config,  \* self.tool_activity_config
    wrapped_id,    \* self.id, the id of the wrapped FunctionToolset
    name_prefix,   \* activity_name_prefix given to the constructor
    call_tool_activity,  \* self.call_tool_activity: the activity, by its name
    registered,    \* the names activity.defn has been called with, in order
    t_pc,          \* await point of call_tool on the workflow side, or "idle"
    t_in,          \* the call in flight, or the last one: in_workflow() and
                   \* name, tool_args, ctx, tool
    t_inproc,      \* wrapped.call_tool calls made by call_tool itself
    t_ser,         \* the contexts call_tool has serialized
    t_acts,        \* the activity invocations call_tool has issued
    t_result,      \* how call_tool ended
    a_pc,          \* await point of the activity body, "none" when not run
    a_ctx,         \* local ctx of the activity body
    a_tools,       \* names in the mapping toolset.get_tools(ctx) returned
    a_tool,        \* local tool of the activity body
    a_log,         \* what the body has done, in order
    a_calls,       \* wrapped.call_tool calls made by the body
    a_result       \* how the body ended

tvars == <<activity_config, tool_activity_config, wrapped_id, name_prefix,
           call_tool_activity, registered, t_pc, t_in,
           t_inproc, t_ser, t_acts, t_result, a_pc, a_ctx, a_tools, a_tool,
           a_log, a_calls, a_result>>

\* An ActivityConfig is a dict: a set of <<key, value>> with unique keys.
CfgKeys == {"retry_policy", "start_to_close_timeout"}
CfgVals == {"v1", "v2"}
IsDict(d) == \A p \in d, q \in d : p[1] = q[1] => p = q
Dicts == {d \in SUBSET (CfgKeys \X CfgVals) : IsDict(d)}
Keys(d) == {p[1] : p \in d}
EmptyDict == {}

\* An entry of tool_activity_config: no entry, the marker False, or a dict.
Absent == [kind |-> "absent", cfg |-> EmptyDict]
Disabled == [kind |-> "false", cfg |-> EmptyDict]
Config(d) == [kind |-> "config", cfg |-> d]
Entries == {Absent, Disabled} \cup {Config(d) : d \in Dicts}

\* Run contexts: the run step and the dependency payload.
Deps == {"d1", "d2"}
NoDeps == ""
Contexts == [run_step : {0, MaxStep}, deps : Deps]
NoContext == [run_step |-> NoStep, deps |-> NoDeps]

\* Descriptors of a FunctionToolset's tools: the tool's name, whether its
\* function is async, and the get_tools call the descriptor came from.
FunctionTool(n, async, from) == [name |-> n, is_async |-> async, src |-> from]
NoTool == FunctionTool("", FALSE, "")

\* A call of the wrapped toolset's call_tool, and the value it returns.
WrappedCall(n, a, c, t) == [name |-> n, args |-> a, ctx |-> c, tool |-> t]
NoCall == WrappedCall("", "", NoContext, NoTool)

\* An exception: its type, what it is about, the tool and toolset it names.
Error(type, reason, tool, ts) ==
    [type |-> type, reason |-> reason, tool |-> tool, toolset |-> ts]
NoError == Error("", "", "", "")
ToolsetIds == {"ts1", "ts2"}

TNoResult == [kind |-> "none", error |-> NoError, of |-> NoCall]
TReturned(call) == [kind |-> "return", error |-> NoError, of |-> call]
TRaised(err, call) == [kind |-> "raise", error |-> err, of |-> call]

NoInput == [in_workflow |-> FALSE, name |-> "", args |-> "", ctx |-> NoContext,
            tool |-> NoTool]

\* no call_tool in flight, no activity body running
TemporalIdle ==
    /\ t_pc = "idle"
    /\ t_in = NoInput
    /\ t_inproc = <<>>
    /\ t_ser = <<>>
    /\ t_acts = <<>>
    /\ t_result = TNoResult
    /\ a_pc = "none"
    /\ a_ctx = NoContext
    /\ a_tools = {}
    /\ a_tool = NoTool
    /\ a_log = <<>>
    /\ a_calls = <<>>
    /\ a_result = TNoResult

\* activity_name_prefix, as given to the constructor
Prefixes == {"agent__a1", "agent__a2"}

\* self.id of the adapter: the id of the toolset it wraps
SelfId(wid) == wid

\* the name is built without the toolset's id
ActivityName_NoId(prefix, id) == <<prefix, "__toolset__", "", "__call_tool">>

\* line 59: f'{activity_name_prefix}__toolset__{self.id}__call_tool', as the
\* sequence of the parts the f-string joins
ActivityName(prefix, id) == <<prefix, "__toolset__", id, "__call_tool">>

\* lines 59-61: the constructor registers call_tool_activity under its name
\* and keeps it as self.call_tool_activity
Registered ==
    /\ call_tool_activity = ActivityName(name_prefix, SelfId(wrapped_id))
    /\ registered = <<call_tool_activity>>

\* lines 63-65: temporal_activities
TemporalActivities == <<call_tool_activity>>

\* the adapter as the DynamicToolset specification holds it: not called
TemporalAtRest ==
    /\ activity_config = EmptyDict
    /\ tool_activity_config = [n \in ToolNames |-> Absent]
    /\ wrapped_id = "ts1"
    /\ name_prefix = "agent__a1"
    /\ Registered
    /\ TemporalIdle

\* ------------------------------------- _json_error_formatter: state
\* A str is the sequence of its characters, each a one-character string.
VARIABLES
    j_error,       \* the JSONDecodeError: msg, doc, pos, lineno, colno
    j_call,        \* the last function called on it ("none" before any) and
                   \* the model_name and chunk_count it was given
    j_formatted,   \* what format_json_decode_error(j_error) returned
    j_context      \* what create_json_error_context(j_error, ...) returned

jvars == <<j_error, j_call, j_formatted, j_context>>

JsonError(msg, doc, pos, lineno, colno) ==
    [msg |-> msg, doc |-> doc, pos |-> pos, lineno |-> lineno, colno |-> colno]
EmptyStr == <<>>
NoJsonContext ==
    [model_name |-> "", chunk_count |-> -1, json_error_msg |-> EmptyStr,
     json_error_pos |-> -1, json_error_lineno |-> -1, json_error_colno |-> -1,
     formatted_error |-> EmptyStr, problematic_content_preview |-> EmptyStr]

NoJsonCall == [fn |-> "none", model_name |-> "", chunk_count |-> -1]

\* nothing formatted yet
JsonIdle ==
    /\ j_call = NoJsonCall
    /\ j_formatted = EmptyStr
    /\ j_context = NoJsonContext

\* the formatter as the toolset specifications hold it: not called
JsonAtRest ==
    /\ j_error = JsonError(EmptyStr, EmptyStr, 0, 1, 1)
    /\ JsonIdle

\* a tool descriptor is an entry of a child's get_tools mapping: of the first
\* child's or of the last one's
Descriptors == ToolsOf(1) \cup ToolsOf(MaxChildren)
NoDescriptor == <<None, "">>
NoFwd == [name |-> "", args |-> "", step |-> NoStep, tool |-> NoDescriptor]
\* what child c's call_tool returns for the call f it received
ChildResult(c, f) == {<<c, f.name>>}

NoResult == [kind |-> "none", at |-> "", tools |-> {}]
Returned(m) == [kind |-> "return", at |-> "", tools |-> m]
ReturnedNone == [kind |-> "return", at |-> "", tools |-> {}]
Raised(where) == [kind |-> "raise", at |-> where, tools |-> {}]

\* ------------------------------------------------------ toolset trees
\* The id of a toolset: the toolset it was given to (0: the DynamicToolset,
\* c: child c, negative: none of them) and the suffixes appended to it.
Id(base) == [base |-> base, tags |-> <<>>]
NoId == Id(-1)
DynId == Id(0)          \* self._id
OtherId == Id(-2)       \* an id of no toolset of the tree
Func == "f1"            \* self.toolset_func
OtherFunc == "f2"       \* another factory

\* A toolset object: its type, which object it is (ref), its id, the fields
\* of a DynamicToolset (func, per_run_step, child, run_step; child is <<>>
\* for None) and the tool mapping of a function toolset.
Node(type, ref, func, prs, id, child, step, tools) ==
    [type |-> type, ref |-> ref, func |-> func, per_run_step |-> prs,
     id |-> id, child |-> child, run_step |-> step, tools |-> tools]
NoNode == Node("none", <<"none", 0>>, "", FALSE, NoId, <<>>, NoStep, {})

\* child c: a function toolset, a leaf of the tree
Leaf(c) == Node("function", <<"child", c>>, "", FALSE, Id(c), <<>>, NoStep,
                ToolsOf(c))

\* lines 33-39: DynamicToolset(toolset_func, per_run_step, id)
NewInstance(ref, func, prs, id) ==
    Node("dynamic", ref, func, prs, id, <<>>, NoStep, {})

\* the toolset a replacing visitor returns
Replacement == Node("function", <<"replacement", 0>>, "", FALSE, OtherId,
                    <<>>, NoStep, {})

\* Visitors of visit_and_replace: return the node, return a copy of it with
\* a suffix appended to its id, or return another toolset.
Visitors == {"identity", "tag", "replace"}
Suffix == "_x"
Tag(node) == [node EXCEPT !.ref = <<"copy", @[2]>>,
                          !.id = [@ EXCEPT !.tags = Append(@, Suffix)]]
Visit(v, node) ==
    CASE v = "identity" -> node
      [] v = "tag" -> Tag(node)
      [] v = "replace" -> Replacement

NoOut == [kind |-> "none", visitor |-> "", self |-> NoNode, other |-> NoNode,
          value |-> NoNode, eq |-> FALSE, visited |-> <<>>, live |-> {}]

NoRun == [step |-> NoStep, calls |-> 0, factory |-> 0, nones |-> 0,
          first |-> "", ok |-> TRUE, exited |-> FALSE]

Init ==
    /\ toolset = None
    /\ run_step = NoStep
    /\ per_run_step \in BOOLEAN
    /\ pc = "idle"
    /\ op = [kind |-> "none", step |-> NoStep, name |-> "", after_exit |-> FALSE,
             args |-> "", tool |-> NoDescriptor]
    /\ fwd = NoFwd
    /\ since_exit = "never"
    /\ new = None
    /\ pre = [toolset |-> None, run_step |-> NoStep]
    /\ events = <<>>
    /\ result = NoResult
    /\ live = {}
    /\ run = NoRun
    /\ out = NoOut
    /\ TemporalAtRest
    /\ JsonAtRest

\* ------------------------------------------------------------- get_tools
\* a rebuild on every call of a per_run_step node, whatever its step
NeedsRebuild_IgnoreStep(ts, rs, prs, step) == ts = None \/ prs

\* line 68: the condition under which get_tools builds a new child
NeedsRebuild(ts, rs, prs, step) == ts = None \/ (prs /\ step # rs)

\* the old child is never exited before the next one is built
HasOldChild_Never(ts) == FALSE

\* line 69: there is a child to exit before building the next one
HasOldChild(ts) == ts # None

\* history: a get_tools call with ctx.run_step = s is made
RunCall(s) ==
    IF run.step = s
    THEN [run EXCEPT !.calls = Sat(@)]
    ELSE [NoRun EXCEPT !.step = s, !.calls = 1]

\* a call is made with no other call in flight (a single run loop)
Begin(kind, s, n, a, t) ==
    /\ pc = "idle"
    /\ op' = [kind |-> kind, step |-> s, name |-> n,
              after_exit |-> (since_exit = "exited"), args |-> a, tool |-> t]
    /\ fwd' = NoFwd
    /\ UNCHANGED <<tvars, jvars>>
    /\ pre' = [toolset |-> toolset, run_step |-> run_step]
    /\ events' = <<>>
    /\ new' = None

\* lines 67-69: get_tools(ctx) is called and runs to its first await
GetToolsCall ==
    \E s \in Steps :
        /\ Begin("get_tools", s, "", "", NoDescriptor)
        /\ run' = RunCall(s)
        /\ result' = NoResult
        /\ out' = NoOut
        /\ pc' = IF NeedsRebuild(toolset, run_step, per_run_step, s)
                 THEN IF HasOldChild(toolset) THEN "exit_old" ELSE "factory"
                 ELSE "tools"
        /\ since_exit' = "got"
        /\ UNCHANGED <<toolset, run_step, per_run_step, live>>

\* the await is wrapped: when the old child's exit raises, the node is cleared
ExitOld_ClearsOnRaise ==
    /\ pc = "exit_old"
    /\ events' = Append(events, <<"exit", toolset>>)
    /\ live' = live \ {toolset}
    /\ \/ /\ pc' = "factory"
          /\ UNCHANGED <<result, run, toolset, run_step>>
       \/ /\ pc' = "idle"
          /\ result' = Raised("exit_old")
          /\ run' = [run EXCEPT !.ok = FALSE]
          /\ toolset' = None
          /\ run_step' = NoStep
    /\ UNCHANGED <<tvars, jvars, out, fwd, per_run_step, op, since_exit, new, pre>>

\* line 70: await self._toolset.__aexit__()
ExitOld ==
    /\ pc = "exit_old"
    /\ events' = Append(events, <<"exit", toolset>>)
    /\ live' = live \ {toolset}
    /\ \/ /\ pc' = "factory"
          /\ UNCHANGED <<result, run>>
       \/ /\ pc' = "idle"
          /\ result' = Raised("exit_old")
          /\ run' = [run EXCEPT !.ok = FALSE]
    /\ UNCHANGED <<tvars, jvars, out, fwd, toolset, run_step, per_run_step, op, since_exit, new, pre>>

\* history: the factory is invoked / yields r
RunFactory(h) ==
    [h EXCEPT !.factory = Sat(@)]
RunYield(h, r) ==
    [h EXCEPT !.nones = IF r = None THEN Sat(@) ELSE @,
              !.first = IF @ = "" THEN (IF r = None THEN "none" ELSE "toolset")
                        ELSE @]
RunFail(h) ==
    [h EXCEPT !.ok = FALSE, !.first = IF @ = "" THEN "raise" ELSE @]

\* the bound step is not recorded
Bind_NoStep(child, step) ==
    /\ toolset' = child
    /\ UNCHANGED run_step

\* the node is bound only to a toolset, a yield of none keeps the old binding
Bind_OnlyToolset(child, step) ==
    IF child = None
    THEN UNCHANGED <<toolset, run_step>>
    ELSE toolset' = child /\ run_step' = step

\* lines 79-80: self._toolset = toolset; self._run_step = ctx.run_step
Bind(child, step) ==
    /\ toolset' = child
    /\ run_step' = step

\* lines 76-80 when the factory's result r is available
Yield(r, h) ==
    /\ new' = r
    /\ run' = RunYield(h, r)
    /\ IF r # None
       THEN /\ pc' = "enter"
            /\ UNCHANGED <<toolset, run_step>>
       ELSE /\ Bind(r, op.step)
            /\ pc' = "tools"

\* line 72-73: toolset = self.toolset_func(ctx)
Factory ==
    /\ pc = "factory"
    /\ \/ \E r \in Children \cup {None} :        \* a plain value
            /\ events' = events \o <<<<"factory", None>>, <<"yield", r>>>>
            /\ Yield(r, RunFactory(run))
            /\ UNCHANGED result
       \/ /\ events' = Append(events, <<"factory", None>>)   \* an awaitable
          /\ pc' = "await_factory"
          /\ run' = RunFactory(run)
          /\ UNCHANGED <<toolset, run_step, new, result>>
       \/ /\ events' = Append(events, <<"factory", None>>)   \* it raises
          /\ pc' = "idle"
          /\ result' = Raised("factory")
          /\ run' = RunFail(RunFactory(run))
          /\ UNCHANGED <<toolset, run_step, new>>
    /\ UNCHANGED <<tvars, jvars, out, fwd, per_run_step, op, since_exit, pre, live>>

\* line 74: toolset = await toolset
AwaitFactory ==
    /\ pc = "await_factory"
    /\ \/ \E r \in Children \cup {None} :
            /\ events' = Append(events, <<"yield", r>>)
            /\ Yield(r, run)
            /\ UNCHANGED result
       \/ /\ pc' = "idle"
          /\ result' = Raised("await_factory")
          /\ run' = RunFail(run)
          /\ UNCHANGED <<toolset, run_step, new, events>>
    /\ UNCHANGED <<tvars, jvars, out, fwd, per_run_step, op, since_exit, pre, live>>

\* lines 77-80: await toolset.__aenter__(), then bind it
Enter ==
    /\ pc = "enter"
    /\ \/ /\ events' = Append(events, <<"enter", new>>)
          /\ live' = live \cup {new}
          /\ Bind(new, op.step)
          /\ pc' = "tools"
          /\ UNCHANGED <<result, run>>
       \/ /\ events' = Append(events, <<"enter_raise", new>>)
          /\ pc' = "idle"
          /\ result' = Raised("enter")
          /\ run' = [run EXCEPT !.ok = FALSE]
          /\ UNCHANGED <<toolset, run_step, live>>
    /\ UNCHANGED <<tvars, jvars, out, fwd, per_run_step, op, since_exit, new, pre>>

\* lines 82-85: return {} or await self._toolset.get_tools(ctx)
Tools ==
    /\ pc = "tools"
    /\ pc' = "idle"
    /\ IF toolset = None
       THEN /\ result' = Returned(EmptyMapping)
            /\ UNCHANGED <<events, run>>
       ELSE /\ events' = Append(events, <<"get_tools", toolset>>)
            /\ \/ /\ result' = Returned(ToolsOf(toolset))
                  /\ UNCHANGED run
               \/ /\ result' = Raised("tools")
                  /\ run' = [run EXCEPT !.ok = FALSE]
    /\ UNCHANGED <<tvars, jvars, out, fwd, toolset, run_step, per_run_step, op, since_exit, new, pre, live>>

\* --------------------------------------------------------------- __aexit__
\* the node's fields are not cleared
Finally_Keep == UNCHANGED <<toolset, run_step>>

\* lines 63-65: the finally clause
Finally ==
    /\ toolset' = None
    /\ run_step' = NoStep

\* the bound child is never exited by the outer exit
HasBoundChild_Never(ts) == FALSE

\* line 61: there is a child to exit
HasBoundChild(ts) == ts # None

\* lines 59-61: __aexit__ is called; without a child only the finally runs
AExitCall ==
    /\ Begin("aexit", NoStep, "", "", NoDescriptor)
    /\ run' = [run EXCEPT !.exited = TRUE]
    /\ since_exit' = "exited"
    /\ out' = NoOut
    /\ IF HasBoundChild(toolset)
       THEN /\ pc' = "aexit_child"
            /\ result' = NoResult
            /\ UNCHANGED <<toolset, run_step>>
       ELSE /\ pc' = "idle"
            /\ result' = ReturnedNone
            /\ Finally
    /\ UNCHANGED <<per_run_step, live>>

\* the fields are cleared after the await instead of in a finally clause
AExitChild_NoFinally ==
    /\ pc = "aexit_child"
    /\ events' = Append(events, <<"exit", toolset>>)
    /\ live' = live \ {toolset}
    /\ \/ result' = ReturnedNone /\ Finally
       \/ result' = Raised("aexit_child") /\ UNCHANGED <<toolset, run_step>>
    /\ pc' = "idle"
    /\ UNCHANGED <<tvars, jvars, out, fwd, per_run_step, op, since_exit, new, pre, run>>

\* line 62: return await self._toolset.__aexit__(*args), then the finally
AExitChild ==
    /\ pc = "aexit_child"
    /\ events' = Append(events, <<"exit", toolset>>)
    /\ live' = live \ {toolset}
    /\ \/ result' = ReturnedNone
       \/ result' = Raised("aexit_child")
    /\ Finally
    /\ pc' = "idle"
    /\ UNCHANGED <<tvars, jvars, out, fwd, per_run_step, op, since_exit, new, pre, run>>

\* --------------------------------------------------------------- call_tool
\* line 90: assert self._toolset is not None
CallToolCall ==
    \E s \in {0, MaxStep}, n \in ToolNames, a \in ToolArgs, t \in Descriptors :
        /\ Begin("call_tool", s, n, a, t)
        /\ IF toolset # None
           THEN pc' = "call_child"
           ELSE pc' = "assert_failed"
        /\ result' = NoResult
        /\ out' = NoOut
        /\ UNCHANGED <<toolset, run_step, per_run_step, live, run, since_exit>>

\* line 90: the assertion fails
AssertFailed ==
    /\ pc = "assert_failed"
    /\ pc' = "idle"
    /\ result' = Raised("assert")
    /\ UNCHANGED <<tvars, jvars, out, fwd, toolset, run_step, per_run_step, op, since_exit, new, pre,
                   events, live, run>>

\* the child is called with the name the descriptor carries
Forward_DescriptorName(name, args, step, tool) ==
    [name |-> tool[2], args |-> args, step |-> step, tool |-> tool]

\* line 91: the arguments of self._toolset.call_tool(name, tool_args, ctx, tool)
Forward(name, args, step, tool) ==
    [name |-> name, args |-> args, step |-> step, tool |-> tool]

\* a child's call_tool that raises makes the node drop the child
CallChild_DropsOnRaise ==
    /\ pc = "call_child"
    /\ pc' = "idle"
    /\ events' = Append(events, <<"call_tool", toolset>>)
    /\ fwd' = Forward(op.name, op.args, op.step, op.tool)
    /\ \/ /\ result' = Returned(ChildResult(toolset, fwd'))
          /\ UNCHANGED <<toolset, run_step>>
       \/ /\ result' = Raised("call_child")
          /\ toolset' = None
          /\ run_step' = NoStep
    /\ UNCHANGED <<tvars, jvars, out, per_run_step, op, since_exit, new, pre,
                   live, run>>

\* line 91: return await self._toolset.call_tool(name, tool_args, ctx, tool)
CallChild ==
    /\ pc = "call_child"
    /\ pc' = "idle"
    /\ events' = Append(events, <<"call_tool", toolset>>)
    /\ fwd' = Forward(op.name, op.args, op.step, op.tool)
    /\ \/ result' = Returned(ChildResult(toolset, fwd'))
       \/ result' = Raised("call_child")
    /\ UNCHANGED <<tvars, jvars, out, toolset, run_step, per_run_step, op, since_exit, new, pre,
                   live, run>>

\* ------------------------------------- visit_and_replace, apply, __eq__
\* the DynamicToolset as an object: its five fields
Self ==
    [NewInstance(<<"self", 0>>, Func, per_run_step, DynId) EXCEPT
        !.child = IF toolset = None THEN <<>> ELSE <<Leaf(toolset)>>,
        !.run_step = run_step]

\* AbstractToolset.visit_and_replace, as a function toolset inherits it:
\* return visitor(self)
LeafVisitAndReplace(node, v) ==
    [value |-> Visit(v, node), visited |-> <<node>>]

\* AbstractToolset.apply, as a function toolset inherits it: visitor(self)
LeafApply(node) == <<node>>

\* the new instance does not get the bound step
VisitAndReplace_DropsStep(self, v) ==
    IF self.child = <<>>
    THEN LeafVisitAndReplace(self, v)
    ELSE LET sub == LeafVisitAndReplace(self.child[1], v)
             new_instance == NewInstance(<<"new", 0>>, self.func,
                                         self.per_run_step, self.id)
         IN  [value |-> [new_instance EXCEPT !.child = <<sub.value>>],
              visited |-> sub.visited]

\* on an Empty node the node itself is returned, the visitor not asked
VisitAndReplace_EmptyKeepsSelf(self, v) ==
    IF self.child = <<>>
    THEN [value |-> self, visited |-> <<>>]
    ELSE LET sub == LeafVisitAndReplace(self.child[1], v)
             new_instance == NewInstance(<<"new", 0>>, self.func,
                                         self.per_run_step, self.id)
         IN  [value |-> [new_instance EXCEPT !.child = <<sub.value>>,
                                             !.run_step = self.run_step],
              visited |-> sub.visited]

\* lines 99-109: visit_and_replace(visitor): what it returns and the nodes the
\* visitor is called on
VisitAndReplace(self, v) ==
    IF self.child = <<>>
    THEN LeafVisitAndReplace(self, v)
    ELSE LET sub == LeafVisitAndReplace(self.child[1], v)
             new_instance == NewInstance(<<"new", 0>>, self.func,
                                         self.per_run_step, self.id)
         IN  [value |-> [new_instance EXCEPT !.child = <<sub.value>>,
                                             !.run_step = self.run_step],
              visited |-> sub.visited]

\* lines 93-97: apply(visitor): the nodes the visitor is called on
Apply(self) ==
    IF self.child = <<>>
    THEN LeafApply(self)
    ELSE LeafApply(self.child[1])

\* the bound step is not compared
Eq_IgnoresStep(self, other) ==
    IF other.type # "dynamic"
    THEN FALSE
    ELSE /\ self.func = other.func
         /\ self.per_run_step = other.per_run_step
         /\ self.id = other.id
         /\ self.child = other.child

\* lines 41-50: __eq__(other)
Eq(self, other) ==
    IF other.type # "dynamic"
    THEN FALSE
    ELSE /\ self.func = other.func
         /\ self.per_run_step = other.per_run_step
         /\ self.id = other.id
         /\ self.child = other.child
         /\ self.run_step = other.run_step

\* another DynamicToolset with the fields of n
Twin(n) == [n EXCEPT !.ref = <<"twin", 0>>]
\* a DynamicToolset constructed like the node and never used
FreshTwin == NewInstance(<<"twin", 0>>, Func, per_run_step, DynId)
\* a child other than the one n holds, or none
OtherChild(n) ==
    IF n.child = <<>> THEN <<Leaf(1)>>
    ELSE IF n.child[1] = Leaf(1) THEN <<Leaf(MaxChildren)>> ELSE <<Leaf(1)>>
\* a step other than the one n holds
OtherStep(n) == IF n.run_step = 0 THEN MaxStep ELSE 0

\* the objects the node is compared with: a twin, the twin with one field
\* changed, a fresh twin, and an object of another type with equal fields
Others(n) ==
    {Twin(n), FreshTwin,
     [Twin(n) EXCEPT !.func = OtherFunc],
     [Twin(n) EXCEPT !.per_run_step = ~@],
     [Twin(n) EXCEPT !.id = OtherId],
     [Twin(n) EXCEPT !.child = OtherChild(n)],
     [Twin(n) EXCEPT !.child = <<>>],
     [Twin(n) EXCEPT !.run_step = OtherStep(n)],
     [Twin(n) EXCEPT !.type = "function"]}

\* a synchronous method is called and returns, no other call in flight
Structural(kind) ==
    /\ Begin(kind, NoStep, "", "", NoDescriptor)
    /\ pc' = "idle"
    /\ result' = ReturnedNone
    /\ UNCHANGED <<toolset, run_step, per_run_step, live, run, since_exit>>

\* lines 99-109: visit_and_replace(visitor) is called
VisitAndReplaceCall ==
    \E v \in Visitors :
        LET r == VisitAndReplace(Self, v)
        IN  /\ Structural("visit_and_replace")
            /\ out' = [NoOut EXCEPT !.kind = "visit", !.visitor = v,
                                    !.self = Self, !.value = r.value,
                                    !.visited = r.visited, !.live = live]

\* lines 93-97: apply(visitor) is called
ApplyCall ==
    /\ Structural("apply")
    /\ out' = [NoOut EXCEPT !.kind = "apply", !.self = Self,
                            !.visited = Apply(Self), !.live = live]

\* lines 41-50: the node is compared with another object
EqCall ==
    \E other \in Others(Self) :
        /\ Structural("eq")
        /\ out' = [NoOut EXCEPT !.kind = "eq", !.self = Self, !.other = other,
                                !.eq = Eq(Self, other), !.live = live]

Next ==
    \/ VisitAndReplaceCall
    \/ ApplyCall
    \/ EqCall
    \/ GetToolsCall
    \/ ExitOld
    \/ Factory
    \/ AwaitFactory
    \/ Enter
    \/ Tools
    \/ AExitCall
    \/ AExitChild
    \/ CallToolCall
    \/ AssertFailed
    \/ CallChild

Spec == Init /\ [][Next]_vars

\* ------------------------------------------------------------ cancellation
\* The task running get_tools is cancelled while the call is suspended at
\* line 70, 74 or 77: CancelledError is raised at that await.  get_tools has
\* no try/finally and shields no await, so the error leaves the call at
\* once.  At line 70 the error is raised inside the old child's __aexit__:
\* whether that child still finishes its release is the child's affair, so
\* both outcomes are possible.  A cancelled __aenter__ has acquired nothing,
\* as one that raises.
Cancel ==
    /\ pc \in {"exit_old", "await_factory", "enter"}
    /\ pc' = "idle"
    /\ result' = Raised("cancelled")
    /\ run' = [run EXCEPT !.ok = FALSE]
    /\ IF pc = "exit_old"
       THEN \/ /\ events' = Append(events, <<"exit", toolset>>)
               /\ live' = live \ {toolset}
            \/ /\ events' = Append(events, <<"exit_cancelled", toolset>>)
               /\ UNCHANGED live
       ELSE /\ events' = Append(events, <<"cancelled", new>>)
            /\ UNCHANGED live
    /\ UNCHANGED <<tvars, jvars, out, fwd, toolset, run_step, per_run_step, op,
                   since_exit, new, pre>>

\* get_tools and the outer exit, with cancellation of a get_tools in flight
NextCancel ==
    \/ GetToolsCall
    \/ ExitOld
    \/ Factory
    \/ AwaitFactory
    \/ Enter
    \/ Tools
    \/ AExitCall
    \/ AExitChild
    \/ Cancel

SpecCancel == Init /\ [][NextCancel]_vars

TypeOK ==
    /\ toolset \in Children \cup {None}
    /\ run_step \in Steps \cup {NoStep}
    /\ per_run_step \in BOOLEAN
    /\ new \in Children \cup {None}
    /\ live \subseteq Children
    /\ Len(events) <= 5

\* ------------------------------------------------ reading the history
\* op has done `kind` on child c / anything of that kind
Did(kind, c) == \E i \in 1..Len(events) : events[i] = <<kind, c>>
DidAny(kind) == \E i \in 1..Len(events) : events[i][1] = kind
\* every `kind` event of op comes after the event <<before, c>>
After(kind, before, c) ==
    \A i \in 1..Len(events) :
        events[i][1] = kind => \E j \in 1..(i - 1) : events[j] = <<before, c>>

InGetTools == op.kind = "get_tools"
GetToolsDone == op.kind = "get_tools" /\ pc = "idle"
\* op is a get_tools call that found the node Bound to another step
RebuildOfBound ==
    /\ InGetTools
    /\ per_run_step
    /\ pre.toolset # None
    /\ op.step # pre.run_step
\* where a construction of the new child can fail
ConstructionSteps == {"factory", "await_factory", "enter"}

\* ------------------------------------------------------------------ C1
\* C1: in a get_tools call of a per_run_step node that arrives in state
\* Bound with a run_step other than the bound step, the old child's
\* __aexit__ has completed before the factory is invoked and before the new
\* child is entered, at every point of the call.
C1_TeardownBeforeConstruction ==
    RebuildOfBound =>
        /\ After("factory", "exit", pre.toolset)
        /\ After("enter", "exit", pre.toolset)
        /\ After("enter_raise", "exit", pre.toolset)
        /\ pc \in ConstructionSteps => Did("exit", pre.toolset)
        /\ pc \in ConstructionSteps => pre.toolset \notin live

C1_Witness ==
    /\ RebuildOfBound
    /\ pc = "idle"
    /\ result.kind = "return"
    /\ events[1] = <<"exit", pre.toolset>>
    /\ DidAny("factory")
    /\ DidAny("enter")

\* ------------------------------------------------------------------ C2
\* C2: in every reachable state at most one child is live (entered and not
\* yet exited), whatever get_tools, call_tool and outer exit calls were made.
C2_AtMostOneLiveChild == Cardinality(live) <= 1

C2_Witness ==
    /\ GetToolsDone
    /\ pre.toolset # None
    /\ toolset # None
    /\ toolset # pre.toolset
    /\ Did("exit", pre.toolset)
    /\ Did("enter", toolset)
    /\ live = {toolset}

\* ------------------------------------------------------------------ C3
\* C3: when a get_tools rebuild has exited the old child and the construction
\* of the new child then fails (the factory raises, the awaited result
\* raises, the new child's __aenter__ raises), the node ends Empty: no child
\* and no bound step.
C3_FailedRebuildEndsEmpty ==
    ( /\ GetToolsDone
      /\ pre.toolset # None
      /\ Did("exit", pre.toolset)
      /\ result.kind = "raise"
      /\ result.at \in ConstructionSteps )
    => (toolset = None /\ run_step = NoStep)

\* ------------------------------------------------------------------ C4
\* C4: a get_tools call on a per_run_step node that is Bound, with
\* ctx.run_step equal to the bound step, leaves the child and the bound step
\* as they were, exits and enters nothing, does not invoke the factory, and
\* returns what the child's get_tools returns.
C4_SameStepKeepsChild ==
    ( /\ InGetTools
      /\ per_run_step
      /\ pre.toolset # None
      /\ op.step = pre.run_step )
    => /\ toolset = pre.toolset
       /\ run_step = pre.run_step
       /\ ~DidAny("exit") /\ ~DidAny("enter") /\ ~DidAny("factory")
       /\ pc \in {"tools", "idle"}
       /\ pc = "idle" => events = << <<"get_tools", pre.toolset>> >>
       /\ (pc = "idle" /\ result.kind = "return")
              => result.tools = ToolsOf(pre.toolset)

C4_Witness ==
    /\ GetToolsDone
    /\ per_run_step
    /\ pre.toolset # None
    /\ op.step = pre.run_step
    /\ run.calls = MaxCount
    /\ run.factory = 1
    /\ toolset \in live
    /\ result = Returned(ToolsOf(toolset))

\* ------------------------------------------------------------------ C5
\* the get_tools calls of the current run step all returned, with no outer
\* exit among them
QuietStep ==
    /\ per_run_step
    /\ GetToolsDone
    /\ run.ok
    /\ ~run.exited

\* C5 as stated: the get_tools calls made within one run step invoke the
\* factory exactly once in that step, whether it yields a toolset or none.
C5_FactoryOncePerStep ==
    (QuietStep /\ run.first \in {"toolset", "none"}) => run.factory = 1

\* C5 amended: the get_tools calls made within one run step invoke the
\* factory exactly once when the first invocation yields a toolset, which
\* stays bound for the step; while the factory yields none the node stays
\* Empty and every call of the step invokes the factory again.
C5_FactoryOncePerBoundStep ==
    QuietStep =>
        /\ run.first = "toolset" =>
              (run.factory = 1 /\ toolset # None /\ run_step = run.step)
        /\ (run.first = "none" /\ toolset = None) =>
              (run.factory = run.calls /\ run.nones = run.calls)

C5_Witness ==
    /\ QuietStep
    /\ run.first = "toolset"
    /\ run.calls = MaxCount
    /\ run.factory = 1
    /\ events = << <<"get_tools", toolset>> >>

\* ------------------------------------------------------------------ C6
\* the condition of the claim, on the node as the call found it
C6_Condition ==
    pre.toolset = None \/ (per_run_step /\ op.step # pre.run_step)

\* with per_run_step false, get_tools never exits or replaces a Bound child
C6_NotPerStepKeepsChild ==
    (InGetTools /\ ~per_run_step /\ pre.toolset # None) =>
        /\ toolset = pre.toolset
        /\ run_step = pre.run_step
        /\ ~DidAny("exit") /\ ~DidAny("factory") /\ ~DidAny("enter")

\* C6 as stated: get_tools invokes the factory if and only if the node is
\* Empty, or per_run_step is true and ctx.run_step differs from the bound
\* step; with per_run_step false a Bound child is never exited or replaced.
C6_FactoryIffCondition ==
    /\ GetToolsDone => (DidAny("factory") <=> C6_Condition)
    /\ C6_NotPerStepKeepsChild

\* C6 amended: the same, except that a call whose exit of the old child
\* raises ends there without invoking the factory.
C6_FactoryIffConditionUnlessExitRaises ==
    /\ (GetToolsDone /\ result # Raised("exit_old"))
          => (DidAny("factory") <=> C6_Condition)
    /\ (GetToolsDone /\ result = Raised("exit_old"))
          => (C6_Condition /\ ~DidAny("factory"))
    /\ InGetTools => (DidAny("factory") => C6_Condition)
    /\ C6_NotPerStepKeepsChild

C6_Witness ==
    /\ GetToolsDone
    /\ ~per_run_step
    /\ pre.toolset # None
    /\ op.step # pre.run_step
    /\ result = Returned(ToolsOf(pre.toolset))

\* ------------------------------------------------------------------ C7
\* C7: when the factory yields none, no child is entered, the node has no
\* child afterwards, the previous child (if any) has been exited, and
\* get_tools returns the empty mapping.
C7_NoneYieldsEmpty ==
    (InGetTools /\ Did("yield", None)) =>
        /\ toolset = None
        /\ ~DidAny("enter") /\ ~DidAny("enter_raise") /\ ~DidAny("get_tools")
        /\ live = {}
        /\ pre.toolset # None => Did("exit", pre.toolset)
        /\ pc \in {"tools", "idle"}
        /\ pc = "idle" => result = Returned(EmptyMapping)

C7_Witness ==
    /\ GetToolsDone
    /\ Did("yield", None)
    /\ pre.toolset # None
    /\ events[1] = <<"exit", pre.toolset>>
    /\ result = Returned(EmptyMapping)

\* ------------------------------------------------------------------ C8
AExitDone == op.kind = "aexit" /\ pc = "idle"

\* C8: an outer exit of a Bound node exits the child exactly once and leaves
\* the node Empty (child and bound step cleared) whether the child's exit
\* returns or raises; a second outer exit with no get_tools in between exits
\* no child and leaves the node Empty.
C8_OuterExitClears ==
    /\ AExitDone =>
          /\ toolset = None
          /\ run_step = NoStep
          /\ events = IF pre.toolset # None
                      THEN << <<"exit", pre.toolset>> >>
                      ELSE <<>>
          /\ result.kind \in {"return", "raise"}
          /\ op.after_exit => (pre.toolset = None /\ events = <<>>)
    /\ (op.kind = "aexit" /\ pc = "aexit_child") =>
          (events = <<>> /\ toolset = pre.toolset /\ toolset # None)

C8_Witness ==
    /\ AExitDone
    /\ pre.toolset \in Children
    /\ pre.run_step \in Steps
    /\ result = Raised("aexit_child")
    /\ toolset = None

\* ------------------------------------------------------------------ C9
\* C9: when an outer exit has completed, whatever calls came before it and
\* however they ended, no child the node entered is still live.
C9_NothingLiveAfterOuterExit == AExitDone => live = {}

C9_Witness ==
    /\ AExitDone
    /\ ~run.ok
    /\ run.first = "toolset"
    /\ events = << <<"exit", pre.toolset>> >>
    /\ live = {}

\* ----------------------------------------------------------------- C10
\* C10: the first get_tools call after an outer exit finds the node Empty,
\* invokes the factory before anything else, and calls get_tools only on a
\* child it has entered in this call, whatever ctx.run_step and per_run_step.
C10_ReacquireAfterExit ==
    (InGetTools /\ op.after_exit) =>
        /\ pre.toolset = None
        /\ pc # "exit_old"
        /\ pc # "factory" => (Len(events) >= 1 /\ events[1] = <<"factory", None>>)
        /\ \A c \in Children : Did("get_tools", c) =>
              (After("get_tools", "enter", c) /\ c \in live)

C10_Witness ==
    /\ GetToolsDone
    /\ op.after_exit
    /\ ~per_run_step
    /\ run.exited
    /\ run.first = "toolset"
    /\ run.calls = MaxCount
    /\ Did("enter", toolset)
    /\ result = Returned(ToolsOf(toolset))

\* ----------------------------------------------------------------- C11
InCallTool == op.kind = "call_tool"

\* C11: call_tool on an Empty node fails on the assertion: no child's
\* call_tool is called, nothing is exited, entered or built, and the node
\* stays Empty; on a Bound node it calls the bound child's call_tool once
\* with the caller's name, arguments, context and descriptor and returns the
\* child's result.
C11_CallToolAssertsOrForwards ==
    /\ (InCallTool /\ pre.toolset = None) =>
          /\ pc \in {"assert_failed", "idle"}
          /\ events = <<>>
          /\ fwd = NoFwd
          /\ toolset = None /\ run_step = pre.run_step
          /\ pc = "idle" => result = Raised("assert")
    /\ (InCallTool /\ pre.toolset # None) =>
          /\ pc \in {"call_child", "idle"}
          /\ pc = "call_child" => (events = <<>> /\ fwd = NoFwd)
          /\ pc = "idle" =>
                /\ events = << <<"call_tool", pre.toolset>> >>
                /\ fwd.name = op.name
                /\ fwd.args = op.args
                /\ fwd.step = op.step
                /\ fwd.tool = op.tool
                /\ result \in {Returned(ChildResult(pre.toolset, fwd)),
                               Raised("call_child")}

C11_Witness ==
    /\ InCallTool
    /\ pc = "idle"
    /\ pre.toolset \in live
    /\ op.tool[2] # op.name
    /\ op.tool[1] # pre.toolset
    /\ op.step # pre.run_step
    /\ result = Returned({<<pre.toolset, op.name>>})

\* =====================================================================
\* TemporalFunctionToolset (durable_exec/temporal/_function_toolset.py)
\* =====================================================================
\* the node as the TemporalFunctionToolset specification holds it: not used
DynamicAtRest ==
    /\ toolset = None
    /\ run_step = NoStep
    /\ per_run_step = TRUE
    /\ pc = "idle"
    /\ op = [kind |-> "none", step |-> NoStep, name |-> "", after_exit |-> FALSE,
             args |-> "", tool |-> NoDescriptor]
    /\ fwd = NoFwd
    /\ since_exit = "never"
    /\ new = None
    /\ pre = [toolset |-> None, run_step |-> NoStep]
    /\ events = <<>>
    /\ result = NoResult
    /\ live = {}
    /\ run = NoRun
    /\ out = NoOut

\* the configurations with the timeout as their only key
TimeoutDicts == {d \in Dicts : Keys(d) \subseteq {"start_to_close_timeout"}}
TimeoutEntries == {Absent, Disabled} \cup {Config(d) : d \in TimeoutDicts}

\* lines 28-41: the adapter is constructed with its configuration
InitTemporal ==
    /\ DynamicAtRest
    /\ JsonAtRest
    /\ activity_config \in TimeoutDicts
    /\ tool_activity_config \in [ToolNames -> TimeoutEntries]
    /\ wrapped_id \in ToolsetIds
    /\ name_prefix = "agent__a1"
    /\ Registered
    /\ TemporalIdle

\* every call is taken to be inside a workflow
RunsDirect_Never(in_workflow) == FALSE

\* line 70: call_tool runs the tool directly when not in a workflow
RunsDirect(in_workflow) == ~in_workflow

\* line 73: self.tool_activity_config.get(name, {})
Lookup(tac, name) ==
    IF tac[name].kind = "absent" THEN Config(EmptyDict) ELSE tac[name]

\* the marker False is not recognised
IsDisabled_Never(entry) == FALSE

\* line 74: tool_activity_config is False
IsDisabled(entry) == entry.kind = "false"

\* the tool is never taken to be synchronous
IsSync_Never(tool) == FALSE

\* line 76: not tool.is_async
IsSync(tool) == ~tool.is_async

\* lines 77-80: the UserError for a sync tool whose activity is disabled
ConfigError(name) == Error("UserError", "activity_disabled_sync_tool", name, "")

\* the operands of the merge are swapped: the default wins
Merge_DefaultWins(default, override) ==
    default \cup {p \in override : p[1] \notin Keys(default)}

\* line 83: self.activity_config | tool_activity_config
Merge(default, override) ==
    override \cup {p \in default : p[1] \notin Keys(override)}

\* the merge is done in place (|=): the default becomes the merged dict
ActivityConfigAfterMerge_InPlace(default, merged) == merged

\* line 83: the merged dict is a new object bound to a local name;
\* self.activity_config is what it was
ActivityConfigAfterMerge(default, merged) == default

\* line 84: self.run_context_type.serialize_run_context(ctx); the deps are
\* not part of the serialized context
Serialize(ctx) == [run_step |-> ctx.run_step]
NoSerialized == [run_step |-> NoStep]

\* line 45: self.run_context_type.deserialize_run_context(serialized, deps=deps)
Deserialize(ser, deps) == [run_step |-> ser.run_step, deps |-> deps]

\* lines 21-24, 88: _CallToolParams(name, tool_args, serialized_run_context)
CallToolParams(name, args, ser) ==
    [name |-> name, tool_args |-> args, serialized_run_context |-> ser]

\* the deps are not passed to the activity
Invocation_NoDeps(params, deps, cfg) ==
    [activity |-> "call_tool_activity", params |-> params, deps |-> NoDeps,
     config |-> cfg]

\* lines 85-92: workflow.execute_activity(activity=self.call_tool_activity,
\* args=[params, ctx.deps], **tool_activity_config)
Invocation(params, deps, cfg) ==
    [activity |-> "call_tool_activity", params |-> params, deps |-> deps,
     config |-> cfg]

\* lines 71, 81: super().call_tool(name, tool_args, ctx, tool), which calls
\* the wrapped toolset's call_tool with the same arguments
SuperCallTool(n, a, c, t) == WrappedCall(n, a, c, t)

\* call_tool is called with no call in flight
TBegin(w, n, a, c, t) ==
    /\ t_pc = "idle"
    /\ t_in' = [in_workflow |-> w, name |-> n, args |-> a, ctx |-> c, tool |-> t]
    /\ a_pc' = "none"
    /\ a_ctx' = NoContext
    /\ a_tools' = {}
    /\ a_tool' = NoTool
    /\ a_log' = <<>>
    /\ a_calls' = <<>>
    /\ a_result' = TNoResult
    /\ UNCHANGED <<tool_activity_config, wrapped_id, name_prefix,
                call_tool_activity, registered>>
    /\ UNCHANGED <<vars, jvars>>

\* the in-process call does not return: the activity is invoked as well
TSuper_FallsThrough(n, a, c, t) ==
    /\ t_inproc' = <<SuperCallTool(n, a, c, t)>>
    /\ t_ser' = <<c>>
    /\ t_acts' = <<Invocation(CallToolParams(n, a, Serialize(c)), c.deps,
                              activity_config)>>
    /\ t_result' = TNoResult
    /\ t_pc' = "activity"

\* lines 71, 81: await super().call_tool(name, tool_args, ctx, tool)
TSuper(n, a, c, t) ==
    /\ t_inproc' = <<SuperCallTool(n, a, c, t)>>
    /\ t_ser' = <<>>
    /\ t_acts' = <<>>
    /\ t_result' = TNoResult
    /\ t_pc' = "super"

\* lines 67-92: call_tool(name, tool_args, ctx, tool) runs to its first await
TCallTool ==
    \E w \in BOOLEAN, n \in ToolNames, a \in ToolArgs, c \in Contexts,
       async \in BOOLEAN :
      LET t == FunctionTool(n, async, "workflow")
          entry == Lookup(tool_activity_config, n)
      IN  /\ TBegin(w, n, a, c, t)
          /\ activity_config' =
                IF RunsDirect(w) \/ IsDisabled(entry)
                THEN activity_config
                ELSE ActivityConfigAfterMerge(
                         activity_config, Merge(activity_config, entry.cfg))
          /\ IF RunsDirect(w)
             THEN TSuper(n, a, c, t)
             ELSE IF IsDisabled(entry)
                  THEN IF IsSync(t)
                       THEN /\ t_result' = TRaised(ConfigError(n), NoCall)
                            /\ t_pc' = "idle"
                            /\ t_inproc' = <<>>
                            /\ t_ser' = <<>>
                            /\ t_acts' = <<>>
                       ELSE TSuper(n, a, c, t)
                  ELSE /\ t_ser' = <<c>>
                       /\ t_acts' = <<Invocation(
                                         CallToolParams(n, a, Serialize(c)),
                                         c.deps,
                                         Merge(activity_config, entry.cfg))>>
                       /\ t_inproc' = <<>>
                       /\ t_result' = TNoResult
                       /\ t_pc' = "activity"

TFrame ==
    UNCHANGED <<activity_config, tool_activity_config, wrapped_id, name_prefix,
                call_tool_activity, registered, t_in,
                t_inproc, t_ser, t_acts>>
AFrame == UNCHANGED <<a_pc, a_ctx, a_tools, a_tool, a_log, a_calls, a_result>>

\* lines 71, 81: the wrapped toolset's call_tool returns or raises
TSuperDone ==
    /\ t_pc = "super"
    /\ t_pc' = "idle"
    /\ \/ t_result' = TReturned(t_inproc[1])
       \/ t_result' = TRaised(Error("ToolError", "wrapped", "", ""), t_inproc[1])
    /\ TFrame /\ AFrame
    /\ UNCHANGED <<vars, jvars>>

\* line 45: ctx = deserialize_run_context(params.serialized_run_context, deps=deps)
ReconstructContext(inv) ==
    Deserialize(inv.params.serialized_run_context, inv.deps)

\* lines 43-45: the engine starts the activity body with the invocation's
\* arguments; the body reconstructs the run context
ActStart ==
    /\ t_pc = "activity"
    /\ a_pc = "none"
    /\ a_ctx' = ReconstructContext(t_acts[1])
    /\ a_log' = <<"deserialize">>
    /\ a_pc' = "get_tools"
    /\ a_tools' = {}
    /\ a_tool' = NoTool
    /\ a_calls' = <<>>
    /\ a_result' = TNoResult
    /\ TFrame
    /\ UNCHANGED <<t_pc, t_result>>
    /\ UNCHANGED <<vars, jvars>>

\* lines 49-52: the UserError for a tool that is no longer advertised
NotFoundError(name, id) == Error("UserError", "tool_not_found", name, id)

\* a missing name is not noticed
Found_Always(names, n) == TRUE

\* lines 47-48: the lookup [name] on the returned mapping raises no KeyError
Found(names, n) == n \in names

\* lines 46-52: tool = (await toolset.get_tools(ctx))[name], inside the try:
\* a KeyError of the lookup and a KeyError that get_tools itself raises are
\* both turned into the UserError
ActGetTools ==
    /\ a_pc = "get_tools"
    /\ \/ \E names \in SUBSET ToolNames :
            LET n == t_acts[1].params.name
            IN  /\ a_log' = Append(a_log, "get_tools")
                /\ a_tools' = names
                /\ IF Found(names, n)
                   THEN /\ a_tool' = FunctionTool(n, t_in.tool.is_async,
                                                  "activity")
                        /\ a_pc' = "call"
                        /\ UNCHANGED a_result
                   ELSE /\ a_result' = TRaised(NotFoundError(n, wrapped_id), NoCall)
                        /\ a_pc' = "failed"
                        /\ UNCHANGED a_tool
       \/ /\ a_log' = Append(a_log, "get_tools_raise")  \* get_tools raises
          /\ \/ a_result' =                 \* a KeyError: caught at line 48
                   TRaised(NotFoundError(t_acts[1].params.name, wrapped_id),
                           NoCall)
             \/ a_result' =                 \* any other error: not caught
                   TRaised(Error("ToolError", "get_tools", "", ""), NoCall)
          /\ a_pc' = "failed"
          /\ UNCHANGED <<a_tools, a_tool>>
    /\ TFrame
    /\ UNCHANGED <<t_pc, t_result, a_ctx, a_calls>>
    /\ UNCHANGED <<vars, jvars>>

\* the tool is called without the arguments of the params
ActivityCall_NoArgs(params, ctx, tool) ==
    WrappedCall(params.name, "", ctx, tool)

\* line 54: the arguments of self.wrapped.call_tool(name, params.tool_args, ctx, tool)
ActivityCall(params, ctx, tool) ==
    WrappedCall(params.name, params.tool_args, ctx, tool)

\* line 54: return await self.wrapped.call_tool(name, params.tool_args, ctx, tool)
ActCallTool ==
    /\ a_pc = "call"
    /\ a_log' = Append(a_log, "call_tool")
    /\ a_calls' = Append(a_calls, ActivityCall(t_acts[1].params, a_ctx, a_tool))
    /\ \/ /\ a_result' = TReturned(a_calls'[1])
          /\ a_pc' = "returned"
       \/ /\ a_result' = TRaised(Error("ToolError", "wrapped", "", ""), a_calls'[1])
          /\ a_pc' = "failed"
    /\ TFrame
    /\ UNCHANGED <<t_pc, t_result, a_ctx, a_tools, a_tool>>
    /\ UNCHANGED <<vars, jvars>>

\* a failed activity is answered by running the tool in-process
ActDeliver_FallsBack ==
    /\ t_pc = "activity"
    /\ a_pc \in {"returned", "failed"}
    /\ IF a_pc = "failed"
       THEN /\ t_inproc' = <<SuperCallTool(t_in.name, t_in.args, t_in.ctx,
                                          t_in.tool)>>
            /\ t_pc' = "super"
            /\ t_result' = TNoResult
       ELSE /\ t_inproc' = t_inproc
            /\ t_pc' = "idle"
            /\ t_result' = a_result
    /\ UNCHANGED <<activity_config, tool_activity_config, wrapped_id, name_prefix,
                call_tool_activity, registered, t_in,
                   t_ser, t_acts>>
    /\ AFrame
    /\ UNCHANGED <<vars, jvars>>

\* line 85: the await of execute_activity ends with what the body ended with
ActDeliver ==
    /\ t_pc = "activity"
    /\ a_pc \in {"returned", "failed"}
    /\ t_result' = a_result
    /\ t_pc' = "idle"
    /\ TFrame /\ AFrame
    /\ UNCHANGED <<vars, jvars>>

\* line 85: the await of execute_activity ends with a failure of the engine
\* (schedule timeout, transport or serialization failure), the body not run
EngineFail ==
    /\ t_pc = "activity"
    /\ a_pc = "none"
    /\ t_result' = TRaised(Error("ActivityError", "engine", "", ""), NoCall)
    /\ t_pc' = "idle"
    /\ TFrame /\ AFrame
    /\ UNCHANGED <<vars, jvars>>

NextTemporal ==
    \/ TCallTool
    \/ TSuperDone
    \/ ActStart
    \/ ActGetTools
    \/ ActCallTool
    \/ ActDeliver
    \/ EngineFail

SpecTemporal == InitTemporal /\ [][NextTemporal]_<<vars, tvars>>

\* lines 28-41: the adapter is constructed with any configuration over both
\* keys; call_tool is followed up to its first await
InitConfig ==
    /\ DynamicAtRest
    /\ JsonAtRest
    /\ activity_config \in Dicts
    /\ tool_activity_config \in [ToolNames -> Entries]
    /\ wrapped_id = "ts1"
    /\ name_prefix = "agent__a1"
    /\ Registered
    /\ TemporalIdle

NextConfig == TCallTool

SpecConfig == InitConfig /\ [][NextConfig]_<<vars, tvars>>

\* lines 28-61: the adapter is constructed with any prefix over any wrapped
\* toolset, each tool's activity left as it is or disabled
InitRegister ==
    /\ DynamicAtRest
    /\ JsonAtRest
    /\ activity_config = EmptyDict
    /\ tool_activity_config \in [ToolNames -> {Absent, Disabled}]
    /\ wrapped_id \in ToolsetIds
    /\ name_prefix \in Prefixes
    /\ Registered
    /\ TemporalIdle

SpecRegister == InitRegister /\ [][NextTemporal]_<<vars, tvars>>

\* ---------------------------------------------------------------------
\* Properties of TemporalFunctionToolset.call_tool and of the activity body

\* a call of call_tool has been made / has ended
TCalled == t_in # NoInput
TDone == TCalled /\ t_pc = "idle"

\* the entry configured for the name of the current call
TEntry == tool_activity_config[t_in.name]

\* the call ended with the configuration error of lines 77-80
TConfigError ==
    /\ t_result.kind = "raise"
    /\ t_result.error = ConfigError(t_in.name)

\* the three outcomes of a call
OutcomeInProcess == Len(t_inproc) = 1 /\ Len(t_acts) = 0 /\ ~TConfigError
OutcomeActivity == Len(t_inproc) = 0 /\ Len(t_acts) = 1 /\ ~TConfigError
OutcomeConfigError == Len(t_inproc) = 0 /\ Len(t_acts) = 0 /\ TConfigError

\* C12: every call of call_tool ends in exactly one of: one in-process call
\* of the wrapped toolset, one activity invocation, a configuration error;
\* no call makes two activity invocations, and none makes both an activity
\* invocation and an in-process call.
C12_ExactlyOneOutcome ==
    /\ Len(t_acts) <= 1
    /\ ~(Len(t_acts) >= 1 /\ Len(t_inproc) >= 1)
    /\ TDone =>
        /\ OutcomeInProcess \/ OutcomeActivity \/ OutcomeConfigError
        /\ ~(OutcomeInProcess /\ OutcomeActivity)
        /\ ~(OutcomeInProcess /\ OutcomeConfigError)
        /\ ~(OutcomeActivity /\ OutcomeConfigError)

\* a call ended after its activity returned
C12_Witness ==
    /\ TDone
    /\ OutcomeActivity
    /\ t_result.kind = "return"

\* C13: outside a workflow, whatever is configured for the name, call_tool
\* makes exactly one call of the wrapped toolset with the same name,
\* arguments, context and descriptor, ends with that call's result or
\* failure, raises no configuration error, serializes no context and invokes
\* no activity.
C13_OutsideWorkflowDirect ==
    (TCalled /\ ~t_in.in_workflow) =>
        LET call == WrappedCall(t_in.name, t_in.args, t_in.ctx, t_in.tool)
        IN  /\ t_inproc = <<call>>
            /\ t_ser = <<>>
            /\ t_acts = <<>>
            /\ a_pc = "none"
            /\ t_pc \in {"super", "idle"}
            /\ ~TConfigError
            /\ t_pc = "idle" =>
                \/ t_result = TReturned(call)
                \/ /\ t_result.kind = "raise"
                   /\ t_result.of = call
                   /\ t_result.error.reason = "wrapped"

\* outside a workflow a synchronous tool whose activity is disabled has run
C13_Witness ==
    /\ TDone
    /\ ~t_in.in_workflow
    /\ TEntry = Disabled
    /\ ~t_in.tool.is_async
    /\ t_result = TReturned(t_inproc[1])

\* C14: inside a workflow, with the name's entry absent or a configuration,
\* call_tool makes exactly one invocation of the registered activity, whose
\* first argument carries the name, the arguments and the serialized context
\* and whose second is the deps; call_tool ends with the activity's result.
C14_ActivityInvocation ==
    (TCalled /\ t_in.in_workflow /\ TEntry.kind # "false") =>
        /\ Len(t_acts) = 1
        /\ t_acts[1].activity = "call_tool_activity"
        /\ t_acts[1].params.name = t_in.name
        /\ t_acts[1].params.tool_args = t_in.args
        /\ t_ser = <<t_in.ctx>>
        /\ t_acts[1].params.serialized_run_context = Serialize(t_in.ctx)
        /\ t_acts[1].deps = t_in.ctx.deps
        /\ t_inproc = <<>>
        /\ t_pc \in {"activity", "idle"}
        /\ t_pc = "idle" =>
            \/ a_pc \in {"returned", "failed"} /\ t_result = a_result
            \/ /\ a_pc = "none"
               /\ t_result.kind = "raise"
               /\ t_result.error.type = "ActivityError"

\* a call with a configured entry ended with what its activity returned
C14_Witness ==
    /\ TDone
    /\ t_in.in_workflow
    /\ TEntry.kind = "config"
    /\ a_pc = "returned"
    /\ t_result = a_result
    /\ t_result.kind = "return"

\* C15: inside a workflow, with the activity disabled for the name and a
\* descriptor whose function is not async, call_tool raises the
\* configuration error: no context is serialized, no activity is invoked
\* and the wrapped toolset is not called.
C15_DisabledSyncRaises ==
    (TCalled /\ t_in.in_workflow /\ TEntry = Disabled /\ ~t_in.tool.is_async) =>
        /\ t_pc = "idle"
        /\ t_result = TRaised(ConfigError(t_in.name), NoCall)
        /\ t_result.error.type = "UserError"
        /\ t_ser = <<>>
        /\ t_acts = <<>>
        /\ t_inproc = <<>>
        /\ a_pc = "none"
        /\ a_calls = <<>>

\* such a call has been made
C15_Witness ==
    /\ TCalled
    /\ t_in.in_workflow
    /\ TEntry = Disabled
    /\ ~t_in.tool.is_async
    /\ TConfigError

\* C16: inside a workflow, with the activity disabled for the name and a
\* descriptor whose function is async, call_tool makes exactly one
\* in-process call of the wrapped toolset with the same arguments and
\* invokes no activity.
C16_DisabledAsyncDirect ==
    (TCalled /\ t_in.in_workflow /\ TEntry = Disabled /\ t_in.tool.is_async) =>
        /\ t_inproc = <<WrappedCall(t_in.name, t_in.args, t_in.ctx, t_in.tool)>>
        /\ t_acts = <<>>
        /\ t_ser = <<>>
        /\ a_pc = "none"
        /\ ~TConfigError
        /\ t_pc \in {"super", "idle"}
        /\ t_pc = "idle" => t_result.of = t_inproc[1]

\* such a call has ended with the wrapped call's result
C16_Witness ==
    /\ TDone
    /\ t_in.in_workflow
    /\ TEntry = Disabled
    /\ t_in.tool.is_async
    /\ t_result = TReturned(t_inproc[1])

\* C17: the configuration of an activity invocation is the default
\* configuration merged with the name's override: every key of the override
\* has the override's value, every other key of the default has the
\* default's value, and there is no other key.
C17_EffectiveConfig ==
    Len(t_acts) = 1 =>
        LET default == activity_config
            override == TEntry.cfg
            cfg == t_acts[1].config
        IN  /\ IsDict(cfg)
            /\ Keys(cfg) = Keys(default) \cup Keys(override)
            /\ \A p \in override : p \in cfg
            /\ \A p \in default : p[1] \notin Keys(override) => p \in cfg

\* an override replaced the default's value of one key and the default
\* supplied another
C17_Witness ==
    /\ Len(t_acts) = 1
    /\ \E p \in activity_config, q \in TEntry.cfg :
          p[1] = q[1] /\ p[2] # q[2] /\ q \in t_acts[1].config
    /\ \E p \in activity_config :
          p[1] \notin Keys(TEntry.cfg) /\ p \in t_acts[1].config

\* get_tools returned a mapping in the activity body
AGotTools == Len(a_log) >= 2 /\ a_log[2] = "get_tools"

\* C18: in the activity body, when the name of the params is not a key of
\* the mapping get_tools returns, the body raises a UserError that names
\* the tool and the toolset, and the wrapped toolset's call_tool is not
\* called.
C18_UnknownToolRaises ==
    (AGotTools /\ t_acts[1].params.name \notin a_tools) =>
        /\ a_pc = "failed"
        /\ a_result.kind = "raise"
        /\ a_result.error.type = "UserError"
        /\ a_result.error.tool = t_acts[1].params.name
        /\ a_result.error.toolset = wrapped_id
        /\ a_calls = <<>>
        /\ "call_tool" \notin {a_log[i] : i \in 1..Len(a_log)}

\* the body failed on a name missing from a non-empty mapping, and the
\* failure reached the caller
C18_Witness ==
    /\ AGotTools
    /\ a_tools # {}
    /\ t_acts[1].params.name \notin a_tools
    /\ t_pc = "idle"
    /\ t_result = TRaised(NotFoundError(t_in.name, wrapped_id), NoCall)

\* the steps of the activity body, in the order of lines 45, 46, 54
ASteps == <<"deserialize", "get_tools", "call_tool">>

\* C19: the activity body reconstructs the context, then obtains the tools,
\* then, the name being found, calls the wrapped toolset's call_tool exactly
\* once with the params' name and arguments, the reconstructed context and
\* the descriptor just obtained, and returns that call's result.
C19_ActivityBodyOrder ==
    /\ Len(a_calls) <= 1
    /\ \A i \in 1..Len(a_log) :
          i <= Len(ASteps) /\ (a_log[i] = ASteps[i] \/
                               (i = 2 /\ a_log[i] = "get_tools_raise"))
    /\ (AGotTools /\ t_acts[1].params.name \in a_tools /\ a_pc # "call") =>
        /\ a_log = ASteps
        /\ a_ctx = ReconstructContext(t_acts[1])
        /\ a_tool.src = "activity"
        /\ a_tool.name = t_acts[1].params.name
        /\ a_calls = <<WrappedCall(t_acts[1].params.name,
                                   t_acts[1].params.tool_args, a_ctx, a_tool)>>
        /\ a_calls[1].args = t_in.args
        /\ a_calls[1].tool # t_in.tool
        /\ a_pc \in {"returned", "failed"}
        /\ a_pc = "returned" => a_result = TReturned(a_calls[1])
        /\ a_pc = "failed" => a_result.kind = "raise" /\ a_result.of = a_calls[1]

\* the body has run its three steps and returned
C19_Witness ==
    /\ a_pc = "returned"
    /\ a_log = ASteps
    /\ Len(a_calls) = 1
    /\ a_result = TReturned(a_calls[1])

\* the activity invocation of the current call has failed: the body raised,
\* or the engine failed the invocation without running the body
TActivityFailed ==
    /\ TDone
    /\ Len(t_acts) >= 1
    /\ a_pc \in {"failed", "none"}

\* C21: when the activity invocation of a call fails (the body fails, or the
\* engine fails it by timeout or transport failure), call_tool ends with
\* that very failure: there is no second invocation and no in-process call
\* of the wrapped toolset.
C21_ActivityFailurePropagates ==
    /\ (TCalled /\ Len(t_acts) >= 1) =>
          /\ Len(t_acts) = 1
          /\ t_inproc = <<>>
          /\ t_pc \in {"activity", "idle"}
    /\ TActivityFailed =>
          /\ t_result.kind = "raise"
          /\ a_pc = "failed" => t_result = a_result
          /\ a_pc = "none" =>
                t_result = TRaised(Error("ActivityError", "engine", "", ""), NoCall)

\* a call ended with the failure of its activity's body, the wrapped toolset
\* having raised in the activity
C21_Witness ==
    /\ TActivityFailed
    /\ a_pc = "failed"
    /\ Len(a_calls) = 1
    /\ t_result = a_result
    /\ t_result.error.type = "ToolError"

\* C22: the constructor registers exactly one activity, named
\* {activity_name_prefix}__toolset__{id of the wrapped toolset}__call_tool;
\* temporal_activities is that one activity, and no call of call_tool
\* registers another or changes the name.
C22_OneActivityRegistered ==
    /\ Len(registered) = 1
    /\ registered[1] = <<name_prefix, "__toolset__", wrapped_id, "__call_tool">>
    /\ TemporalActivities = registered

\* after a call that went through the activity, of an adapter with the
\* second prefix over the second toolset
C22_Witness ==
    /\ TDone
    /\ Len(t_acts) = 1
    /\ a_pc = "returned"
    /\ name_prefix = "agent__a2"
    /\ wrapped_id = "ts2"
    /\ TemporalActivities =
          << <<"agent__a2", "__toolset__", "ts2", "__call_tool">> >>

\* ---------------------------------------------------------------------
\* Properties of DynamicToolset.visit_and_replace, apply and __eq__

\* the last call was visit_and_replace / apply / __eq__, on a Bound node or
\* on an Empty one
Visited == out.kind = "visit"
Applied == out.kind = "apply"
Compared == out.kind = "eq"
OnBound == out.self.child # <<>>
OnEmpty == out.self.child = <<>>

\* the id carries the suffix of the tagging visitor
Suffixed(id) == Len(id.tags) >= 1 /\ id.tags[Len(id.tags)] = Suffix

\* C23: visit_and_replace of a Bound DynamicToolset over a function toolset,
\* with a visitor that returns a copy of each visited node with a suffix
\* appended to its id, returns a tree of the same shape in which the id of
\* every node, the DynamicToolset's own included, carries the suffix, the
\* leaf's tool mapping being unchanged.
C23_EveryIdSuffixed ==
    (Visited /\ out.visitor = "tag" /\ OnBound) =>
        /\ out.value.type = "dynamic"
        /\ Len(out.value.child) = 1
        /\ out.value.child[1].type = "function"
        /\ out.value.child[1].child = <<>>
        /\ out.value.child[1].tools = out.self.child[1].tools
        /\ Suffixed(out.value.child[1].id)
        /\ Suffixed(out.value.id)

\* C24: visit_and_replace on a Bound node leaves the node's child, bound
\* step, factory, per_run_step and id as they were, and returns a new
\* DynamicToolset with the same factory, per_run_step, id and bound step
\* whose child is what the child's visit_and_replace returns for the same
\* visitor; no child is entered or exited and the factory is not invoked.
C24_VisitBoundNonMutating ==
    (Visited /\ OnBound) =>
        /\ Self = out.self
        /\ out.value.type = "dynamic"
        /\ out.value.ref # out.self.ref
        /\ out.value.func = out.self.func
        /\ out.value.per_run_step = out.self.per_run_step
        /\ out.value.id = out.self.id
        /\ out.value.run_step = out.self.run_step
        /\ out.value.child = <<Visit(out.visitor, out.self.child[1])>>
        /\ events = <<>>
        /\ live = out.live

\* a Bound node with a live child was visited by the replacing visitor
C24_Witness ==
    /\ Visited
    /\ OnBound
    /\ out.visitor = "replace"
    /\ out.value.child = <<Replacement>>
    /\ out.value.run_step = MaxStep
    /\ toolset \in live

\* C25: visit_and_replace on an Empty node calls the visitor exactly once,
\* on the DynamicToolset itself, and returns what the visitor returns.
C25_VisitEmptyIsLeaf ==
    (Visited /\ OnEmpty) =>
        /\ out.visited = <<out.self>>
        /\ out.self = Self
        /\ out.value = Visit(out.visitor, out.self)

\* the visitor replaced an Empty DynamicToolset by another toolset
C25_Witness ==
    /\ Visited
    /\ OnEmpty
    /\ out.visitor = "replace"
    /\ out.value = Replacement
    /\ out.visited = <<Self>>

\* the nodes the visitor was called on
VisitedNodes == {out.visited[i] : i \in 1..Len(out.visited)}

\* C26: apply calls the visitor on every reachable node, the DynamicToolset
\* included, in both states: on Empty on the DynamicToolset, on Bound on
\* the DynamicToolset and on every node reached through its child.
C26_ApplyVisitsEveryNode ==
    Applied =>
        /\ out.self \in VisitedNodes
        /\ OnBound => out.self.child[1] \in VisitedNodes

\* the five fields __eq__ compares are equal in the node and in the object
\* it was compared with
SameFields ==
    /\ out.self.func = out.other.func
    /\ out.self.per_run_step = out.other.per_run_step
    /\ out.self.id = out.other.id
    /\ out.self.child = out.other.child
    /\ out.self.run_step = out.other.run_step

\* C27: a DynamicToolset equals another object iff that object is a
\* DynamicToolset and factory, per_run_step, id, bound child and bound step
\* are all equal; so a node equals a twin never used exactly while it holds
\* no child and no step.
C27_EqualIffFieldsEqual ==
    Compared =>
        /\ out.self = Self
        /\ out.eq <=> (out.other.type = "dynamic" /\ SameFields)
        /\ out.other.type # "dynamic" => ~out.eq
        /\ out.other = FreshTwin =>
              (out.eq <=> (toolset = None /\ run_step = NoStep))

\* after a get_tools that bound a child and an outer exit the node is Empty
\* again and equal to the fresh twin, which it was not while Bound
C27_Witness ==
    /\ Compared
    /\ op.after_exit
    /\ run.first = "toolset"
    /\ out.other = FreshTwin
    /\ out.eq

\* =====================================================================
\* _json_error_formatter.py
\* =====================================================================
MaxLen == 3           \* documents of up to MaxLen characters are enumerated
MaxCol == 3           \* colno ranges over -1..MaxCol
PreviewLimit == 500   \* line 118: the length a preview is cut at

\* A character is its Unicode code point and a str is a sequence of code
\* points.  Ord(c) is ord(c) for a printable ASCII character c: upper lists
\* the characters of code points 32 (the space) to 95, lower those of 97
\* to 126.
Ord(c) ==
    LET
        upper ==
          <<" ", "!", "\"", "#", "$", "%", "&", "'", "(", ")",
          "*", "+", ",", "-", ".", "/", "0", "1", "2", "3",
          "4", "5", "6", "7", "8", "9", ":", ";", "<", "=",
          ">", "?", "@", "A", "B", "C", "D", "E", "F", "G",
          "H", "I", "J", "K", "L", "M", "N", "O", "P", "Q",
          "R", "S", "T", "U", "V", "W", "X", "Y", "Z", "[",
          "\\", "]", "^", "_">>
        lower ==
          <<"a", "b", "c", "d", "e", "f", "g", "h", "i", "j",
          "k", "l", "m", "n", "o", "p", "q", "r", "s", "t",
          "u", "v", "w", "x", "y", "z", "{", "|", "}", "~">>
        index(table) == CHOOSE i \in 1..Len(table) : table[i] = c
    IN  IF \E i \in 1..Len(upper) : upper[i] = c
        THEN 31 + index(upper)
        ELSE 96 + index(lower)

\* the str that a text written with such characters denotes
Str(text) == [i \in 1..Len(text) |-> Ord(text[i])]

\* line feed and carriage return
LF == 10
CR == 13
\* line 33: the line boundaries of str.splitlines(): line feed, vertical
\* tab (11), form feed (12), carriage return, the file, group and record
\* separators (28, 29, 30), next line (U+0085), line separator (U+2028)
\* and paragraph separator (U+2029)
LineBreaks == {LF, 11, 12, CR, 28, 29, 30, 133, 8232, 8233}

\* the characters of the enumerated documents: a letter, line feed,
\* carriage return, form feed and line separator
Chars == {Ord("a"), LF, CR, 12, 8232}

\* the literals of the f-strings
AtPosition == Str(<<" ", "a", "t", " ", "p", "o", "s", "i", "t", "i", "o", "n", " ">>)
Header == Str(<<"J", "S", "O", "N", " ", "p", "a", "r", "s", "i", "n", "g", " ", "e", "r", "r", "o", "r", ",", " ", "l", "i", "n", "e", " ">>)
Colon == Str(<<":">>)
Indent == Str(<<" ", " ", " ", " ">>)
Caret == Str(<<"^">>)
ErrorPrefix == Str(<<"J", "S", "O", "N", "D", "e", "c", "o", "d", "e", "E", "r", "r", "o", "r", ":", " ">>)
Newline == <<LF>>
Ellipsis == Str(<<".", ".", ".">>)
NotAvailable == Str(<<"N", "/", "A">>)

\* str(n) of an int
RECURSIVE IntStr(_)
IntStr(n) ==
    IF n < 0 THEN Str(<<"-">>) \o IntStr(0 - n)
    ELSE IF n < 10 THEN <<Ord("0") + n>>
    ELSE IntStr(n \div 10) \o <<Ord("0") + (n % 10)>>

\* ' ' * n: empty for n <= 0
Spaces(n) == [i \in 1..n |-> Ord(" ")]

\* a document of n letters on one line
Fill(n) == [i \in 1..n |-> Ord("a")]

Max(a, b) == IF a >= b THEN a ELSE b

\* the index of the first line break of s, 0 if it has none
FirstBreak(s) ==
    IF \E i \in 1..Len(s) : s[i] \in LineBreaks
    THEN CHOOSE i \in 1..Len(s) :
            /\ s[i] \in LineBreaks
            /\ \A j \in 1..(i - 1) : s[j] \notin LineBreaks
    ELSE 0

\* line 33: str.splitlines(): the lines without their line breaks, CR LF
\* being one break, and no empty last line after a final break
RECURSIVE SplitLines(_)
SplitLines(s) ==
    IF s = EmptyStr THEN <<>>
    ELSE LET i == FirstBreak(s)
         IN  IF i = 0 THEN <<s>>
             ELSE LET end == IF s[i] = CR /\ i < Len(s) /\ s[i + 1] = LF
                             THEN i + 1 ELSE i
                  IN  <<SubSeq(s, 1, i - 1)>>
                        \o SplitLines(SubSeq(s, end + 1, Len(s)))

\* line 80: '\n'.join(parts)
RECURSIVE Join(_)
Join(parts) ==
    IF Len(parts) = 0 THEN EmptyStr
    ELSE IF Len(parts) = 1 THEN parts[1]
    ELSE parts[1] \o Newline \o Join(Tail(parts))

\* the error line is taken with a 0-based lineno where that is a line
ExtractJsonErrorInfo_ZeroBased(error) ==
    LET lines == SplitLines(error.doc)
    IN  [msg |-> error.msg, pos |-> error.pos, lineno |-> error.lineno,
         colno |-> error.colno, doc |-> error.doc,
         error_line |-> IF error.lineno >= 1 /\ error.lineno <= Len(lines)
                        THEN lines[Max(1, error.lineno - 1)]
                        ELSE EmptyStr,
         lines |-> lines]

\* lines 23-48: extract_json_error_info(error)
ExtractJsonErrorInfo(error) ==
    LET lines == SplitLines(error.doc)
    IN  [msg |-> error.msg, pos |-> error.pos, lineno |-> error.lineno,
         colno |-> error.colno, doc |-> error.doc,
         error_line |-> IF error.lineno >= 1 /\ error.lineno <= Len(lines)
                        THEN lines[error.lineno]
                        ELSE EmptyStr,
         lines |-> lines]

\* the caret is put colno, not colno - 1, columns in
CaretPos_OffByOne(colno) == Max(0, colno)

\* line 69: caret_pos = max(0, error_info.colno - 1)
CaretPos(colno) == Max(0, colno - 1)

\* lines 61, 65: f'{error_info.msg} at position {error_info.pos}'
BasicError(info) == info.msg \o AtPosition \o IntStr(info.pos)

\* lines 51-80: format_json_error_visual(error_info)
FormatJsonErrorVisual(info) ==
    IF info.doc = EmptyStr
    THEN BasicError(info)
    ELSE IF info.lineno < 1 \/ info.lineno > Len(info.lines)
    THEN BasicError(info)
    ELSE LET visual_indicator == Spaces(CaretPos(info.colno)) \o Caret
             parts == <<Header \o IntStr(info.lineno) \o Colon,
                        Indent \o info.error_line,
                        Indent \o visual_indicator,
                        ErrorPrefix \o info.msg>>
         IN  Join(parts)

\* lines 83-93: format_json_decode_error(error)
FormatJsonDecodeError(error) ==
    FormatJsonErrorVisual(ExtractJsonErrorInfo(error))

\* a document of exactly the limit is cut as well
Preview_CutsAtLimit(doc) ==
    IF Len(doc) >= PreviewLimit
    THEN SubSeq(doc, 1, PreviewLimit) \o Ellipsis
    ELSE IF doc # EmptyStr THEN doc ELSE NotAvailable

\* lines 118-120: doc[:500] + '...' if len(doc) > 500 else doc or 'N/A'
Preview(doc) ==
    IF Len(doc) > PreviewLimit
    THEN SubSeq(doc, 1, PreviewLimit) \o Ellipsis
    ELSE IF doc # EmptyStr THEN doc ELSE NotAvailable

\* lines 96-121: create_json_error_context(error, model_name, chunk_count)
CreateJsonErrorContext(error, model_name, chunk_count) ==
    LET error_info == ExtractJsonErrorInfo(error)
        formatted_error == FormatJsonErrorVisual(error_info)
    IN  [model_name |-> model_name, chunk_count |-> chunk_count,
         json_error_msg |-> error_info.msg, json_error_pos |-> error_info.pos,
         json_error_lineno |-> error_info.lineno,
         json_error_colno |-> error_info.colno,
         formatted_error |-> formatted_error,
         problematic_content_preview |-> Preview(error_info.doc)]

\* the inputs: every document of up to MaxLen characters, one-line documents
\* of about PreviewLimit characters, two messages, two positions, every
\* lineno around the lines of a document and every colno up to MaxCol
Docs ==
    UNION {[1..k -> Chars] : k \in 0..MaxLen}
        \cup {Fill(n) : n \in (PreviewLimit - 1)..(PreviewLimit + 2)}
Msgs == {Str(<<"E">>), Str(<<"n", "o">>)}
Positions == {0, 12}
Linenos == 0..(MaxLen + 1)
Colnos == (0 - 1)..MaxCol
ModelNames == {"m1", "m2"}
ChunkCounts == {0, 5}

InitJson ==
    /\ DynamicAtRest
    /\ TemporalAtRest
    /\ j_error \in {JsonError(m, d, p, l, c) :
                      m \in Msgs, d \in Docs, p \in Positions, l \in Linenos,
                      c \in Colnos}
    /\ JsonIdle

\* format_json_decode_error(error) is called
FormatCall ==
    /\ j_call.fn = "none"
    /\ j_call' = [NoJsonCall EXCEPT !.fn = "format"]
    /\ j_formatted' = FormatJsonDecodeError(j_error)
    /\ UNCHANGED <<j_error, j_context>>
    /\ UNCHANGED <<vars, tvars>>

\* create_json_error_context(error, model_name, chunk_count) is called
ContextCall ==
    /\ j_call.fn = "format"
    /\ \E m \in ModelNames, k \in ChunkCounts :
          /\ j_call' = [fn |-> "context", model_name |-> m, chunk_count |-> k]
          /\ j_context' = CreateJsonErrorContext(j_error, m, k)
    /\ UNCHANGED <<j_error, j_formatted>>
    /\ UNCHANGED <<vars, tvars>>

NextJson ==
    \/ FormatCall
    \/ ContextCall

SpecJson == InitJson /\ [][NextJson]_<<vars, tvars, jvars>>

\* ---------------------------------------------------------------------
\* Properties of the JSON error formatter

\* format_json_decode_error has been called on the error
Formatted == j_call.fn # "none"
\* the lines of the document, and whether lineno is the number of one
DocLines == SplitLines(j_error.doc)
LinenoInRange == j_error.lineno >= 1 /\ j_error.lineno <= Len(DocLines)
\* the error is formatted with its line and a caret
Visual == Formatted /\ j_error.doc # EmptyStr /\ LinenoInRange

\* str.split('\n')
RECURSIVE SplitNL(_)
SplitNL(s) ==
    IF \E i \in 1..Len(s) : s[i] = LF
    THEN LET i == CHOOSE i \in 1..Len(s) :
                     s[i] = LF /\ \A j \in 1..(i - 1) : s[j] # LF
         IN  <<SubSeq(s, 1, i - 1)>> \o SplitNL(SubSeq(s, i + 1, Len(s)))
    ELSE <<s>>

FormattedLines == SplitNL(j_formatted)

\* C28: format_json_error_visual returns exactly `<msg> at position <pos>`
\* iff the document is empty or lineno is not in 1..number of lines;
\* otherwise it returns four lines joined by newlines: the header with
\* lineno, the error line indented by four spaces, the caret line, and
\* `JSONDecodeError: <msg>`.
C28_BasicOrFourLines ==
    Formatted =>
        /\ (j_formatted = j_error.msg \o AtPosition \o IntStr(j_error.pos))
              <=> (j_error.doc = EmptyStr \/ ~LinenoInRange)
        /\ Visual =>
              /\ Len(FormattedLines) = 4
              /\ FormattedLines[1] = Header \o IntStr(j_error.lineno) \o Colon
              /\ FormattedLines[2] =
                    Str(<<" ", " ", " ", " ">>) \o DocLines[j_error.lineno]
              /\ FormattedLines[3][Len(FormattedLines[3])] = Ord("^")
              /\ FormattedLines[4] = ErrorPrefix \o j_error.msg
              /\ j_formatted =
                    FormattedLines[1] \o Newline \o FormattedLines[2] \o Newline
                      \o FormattedLines[3] \o Newline \o FormattedLines[4]

\* an error on the second line of a document of two lines, the first one
\* ended by CR LF
C28_Witness ==
    /\ Visual
    /\ j_error.doc = <<CR, LF, Ord("a")>>
    /\ j_error.lineno = 2
    /\ FormattedLines[2] = Str(<<" ", " ", " ", " ", "a">>)

\* C29: the caret line of the visual format is four spaces, then
\* max(0, colno - 1) spaces, then one `^`, for every colno; with colno <= 0
\* the caret is under the first column.
C29_CaretLine ==
    Visual =>
        LET line == FormattedLines[3]
            n == IF j_error.colno - 1 > 0 THEN j_error.colno - 1 ELSE 0
        IN  /\ Len(line) = 4 + n + 1
            /\ \A i \in 1..(4 + n) : line[i] = Ord(" ")
            /\ line[4 + n + 1] = Ord("^")
            /\ j_error.colno <= 0 => line = Str(<<" ", " ", " ", " ", "^">>)

\* a caret in the last column, beyond the end of the error line
C29_Witness ==
    /\ Visual
    /\ j_error.colno = MaxCol
    /\ Len(DocLines[j_error.lineno]) < MaxCol
    /\ Len(FormattedLines[3]) = 4 + MaxCol

\* create_json_error_context has been called on the error
ContextMade == j_call.fn = "context"

\* C30: create_json_error_context returns model_name and chunk_count as
\* given, the error's msg, pos, lineno and colno, a formatted_error equal to
\* format_json_decode_error of the same error, and a preview that is the
\* first 500 characters of the document followed by `...` when the document
\* is longer than 500 characters, the document when it has 1 to 500
\* characters, `N/A` when it is empty; the preview has at most 503
\* characters.
C30_ErrorContext ==
    ContextMade =>
        LET doc == j_error.doc
            preview == j_context.problematic_content_preview
        IN  /\ j_context.model_name = j_call.model_name
            /\ j_context.chunk_count = j_call.chunk_count
            /\ j_context.json_error_msg = j_error.msg
            /\ j_context.json_error_pos = j_error.pos
            /\ j_context.json_error_lineno = j_error.lineno
            /\ j_context.json_error_colno = j_error.colno
            /\ j_context.formatted_error = j_formatted
            /\ Len(doc) > PreviewLimit =>
                  preview = SubSeq(doc, 1, PreviewLimit)
                              \o Str(<<".", ".", ".">>)
            /\ (Len(doc) >= 1 /\ Len(doc) <= PreviewLimit) => preview = doc
            /\ Len(doc) = 0 => preview = Str(<<"N", "/", "A">>)
            /\ Len(preview) <= PreviewLimit + 3

\* a document two characters longer than the limit is cut to the limit and
\* gets the three dots
C30_Witness ==
    /\ ContextMade
    /\ Len(j_error.doc) = PreviewLimit + 2
    /\ Len(j_context.problematic_content_preview) = PreviewLimit + 3
    /\ j_context.chunk_count = 5

\* ==================================================================
\* Further properties of DynamicToolset
\* ==================================================================

\* ------------------------------------------------------------------ C31
\* C31: call_tool never changes the node's state.  Whatever the name, the
\* arguments, the context's run_step and the descriptor, and whether the
\* child's call_tool returns, raises or is still to be awaited, the bound
\* child and the bound step are the ones the call found, no child is
\* entered or exited and the factory is not invoked.
C31_CallToolKeepsState ==
    InCallTool =>
        /\ toolset = pre.toolset
        /\ run_step = pre.run_step
        /\ \A i \in 1..Len(events) : events[i][1] = "call_tool"

\* a call for another step, with a descriptor of another child, that the
\* child answered by raising
C31_Witness ==
    /\ InCallTool
    /\ pc = "idle"
    /\ result = Raised("call_child")
    /\ op.step # run_step
    /\ op.tool[1] # toolset
    /\ toolset \in live

\* ------------------------------------------------------------------ C32
\* C32: when a get_tools call that found a child bound is cancelled at one
\* of its awaits, the release of that child has run to completion when the
\* cancellation leaves get_tools, and no child is entered without being
\* the node's child.
C32_TeardownSurvivesCancel ==
    (InGetTools /\ result = Raised("cancelled") /\ pre.toolset # None) =>
        /\ Did("exit", pre.toolset)
        /\ live \subseteq {toolset}

\* ------------------------------------------------------------------ C33
\* C33: the instance that visit_and_replace returns for a Bound node never
\* has as its child the very instance that is the child of the node.
C33_ExclusiveOwnership ==
    (Visited /\ OnBound) =>
        /\ out.value.ref # out.self.ref
        /\ out.value.child[1].ref # out.self.child[1].ref

\* ------------------------------------------------------------------ C34
\* C34: a per_run_step node forwards call_tool to its child only with a
\* context whose run_step is the bound step.
C34_ForwardOnlyAtBoundStep ==
    (per_run_step /\ fwd # NoFwd) => fwd.step = run_step

\* ------------------------------------------------------------------ C35
\* C35: the child whose get_tools or call_tool the node has just called
\* is live: entered and not exited since.
C35_ForwardsTargetLiveChild ==
    \A i \in 1..Len(events) :
        events[i][1] \in {"get_tools", "call_tool"} => events[i][2] \in live

\* ------------------------------------------------------------------ C36
\* C36: a child whose __aexit__ the node is about to await (line 70 or
\* line 62) is live: it has not been exited since it was entered.
C36_NoDoubleExit ==
    pc \in {"exit_old", "aexit_child"} => toolset \in live

\* ------------------------------------------------------------------ C37
\* C37: a node with no child has no bound step, and so equals a freshly
\* constructed node with the same factory, per_run_step and id.
C37_EmptyHasNoStep ==
    (pc = "idle" /\ toolset = None) =>
        /\ run_step = NoStep
        /\ Eq(Self, FreshTwin)

\* ------------------------------------------------------------------ C38
\* C38: when the old child's exit raises in a get_tools call, the call
\* ends with that error, the factory has not been invoked, no child has
\* been entered and the node's child and bound step are those the call
\* found.
C38_ExitRaiseLeavesNode ==
    (InGetTools /\ result = Raised("exit_old")) =>
        /\ pc = "idle"
        /\ ~DidAny("factory")
        /\ ~DidAny("enter")
        /\ new = None
        /\ toolset = pre.toolset
        /\ run_step = pre.run_step

\* the exit of a bound child raised in a rebuild for another step
C38_Witness ==
    /\ RebuildOfBound
    /\ result = Raised("exit_old")
    /\ Did("exit", toolset)
    /\ toolset # None
    /\ run_step # op.step

\* ==================================================================
\* A further property of TemporalFunctionToolset
\* ==================================================================

\* ------------------------------------------------------------------ C39
\* C39: no step of call_tool changes the adapter's default activity
\* configuration or its per-tool configuration mapping.
C39_ConfigNeverModified ==
    [][/\ activity_config' = activity_config
       /\ tool_activity_config' = tool_activity_config]_<<vars, tvars>>

\* an activity was invoked for a tool whose override differs from the
\* default, so the merged configuration is not the default
C39_Witness ==
    /\ Len(t_acts) = 1
    /\ TEntry.kind = "config"
    /\ t_acts[1].config # activity_config
    /\ t_acts[1].config = TEntry.cfg

====
